---- MODULE Spec2Model ----
(***************************************************************************)
(* Scoring and ranking core of tc-insights                                 *)
(* (apps/web/src/lib/scoringUtils.ts).                                     *)
(*                                                                         *)
(* JavaScript values are tagged records; a JavaScript number is an         *)
(* extended rational: a finite fraction in lowest terms, +Infinity,        *)
(* -Infinity or NaN.  Arithmetic follows IEEE-754 for the special values   *)
(* and is exact on the finite ones (binary rounding and the sign of zero   *)
(* are not modelled).                                                      *)
(***************************************************************************)
EXTENDS Integers, Sequences, FiniteSets, TLC

VARIABLES
    pc,            \* the function that ran last
    value,         \* cleanMetricValue / normalizeValue: the argument
    min,           \* normalizeValue: the argument min
    max,           \* normalizeValue: the argument max
    result,        \* the number returned by the last scalar function
    previous,      \* cleanMetricValue on a cleaned value: the value it was given
    args,          \* the arguments of the call as they were when it was made
    newPostsRaw,         \* processAndScoreBatch: the argument newPostsRaw
    historicalPostsRaw,  \* processAndScoreBatch: the argument historicalPostsRaw
    weights,             \* processAndScoreBatch: the argument weights
    cleanedNewPosts,     \* processAndScoreBatch: newPostsRaw.map(cleanPostMetrics)
    cleanedHistoricalPosts,
    minMaxValues,        \* processAndScoreBatch: the baseline
    posts,               \* rankPosts: the argument
    sortedPosts,         \* rankPosts: the sorted copy
    rankedPosts,         \* rankPosts: the returned list
    runs,                \* analysis run: the runs of the POST handler, their locals
    db,                  \* analysis run: app_metadata's timestamp and social_posts
    clock                \* analysis run: the time, as a counter

(***************************************************************************)
(* Bounds of the model.                                                    *)
(***************************************************************************)
MaxStrLen == 3     \* longest enumerated raw string
MaxMetric == 3     \* largest enumerated integer metric value
NumRuns   == 2     \* concurrent analysis runs
MaxPosts  == 3     \* most posts in one call (new and historical together)

(***************************************************************************)
(* JavaScript numbers.                                                     *)
(***************************************************************************)
RECURSIVE GCD(_, _)
GCD(a, b) == IF b = 0 THEN a ELSE GCD(b, a % b)

Abs(n) == IF n < 0 THEN -n ELSE n

\* the finite number n/d, d # 0, in lowest terms with a positive denominator
Fin(n, d) ==
    LET g == GCD(Abs(n), Abs(d))
        s == IF d < 0 THEN -1 ELSE 1
    IN  [k |-> "fin", num |-> s * (n \div g), den |-> s * (d \div g)]

Num(n)  == [k |-> "fin", num |-> n, den |-> 1]
Zero    == Num(0)
NaN     == [k |-> "nan", num |-> 0, den |-> 1]
PosInf  == [k |-> "inf", num |-> 1, den |-> 1]
NegInf  == [k |-> "inf", num |-> -1, den |-> 1]

isNaN(x)    == x.k = "nan"
isFinite(x) == x.k = "fin"

\* the sign of a number that is not NaN: -1, 0 or 1
Sign(x) == IF x.num > 0 THEN 1 ELSE IF x.num < 0 THEN -1 ELSE 0

\* x === y on numbers: NaN equals nothing, itself included
StrictEq(x, y) == ~isNaN(x) /\ ~isNaN(y) /\ x = y

\* x < y on numbers: false when either is NaN
Less(x, y) ==
    /\ ~isNaN(x) /\ ~isNaN(y)
    /\ IF x.k = "inf" THEN x.num < 0 /\ y # x
       ELSE IF y.k = "inf" THEN y.num > 0
       ELSE x.num * y.den < y.num * x.den

LessEq(x, y) == Less(x, y) \/ StrictEq(x, y)

Neg(x) == [x EXCEPT !.num = -x.num]

Add(x, y) ==
    IF isNaN(x) \/ isNaN(y) THEN NaN
    ELSE IF x.k = "inf" /\ y.k = "inf" THEN (IF x = y THEN x ELSE NaN)
    ELSE IF x.k = "inf" THEN x
    ELSE IF y.k = "inf" THEN y
    ELSE Fin(x.num * y.den + y.num * x.den, x.den * y.den)

Sub(x, y) == Add(x, Neg(y))

Mul(x, y) ==
    IF isNaN(x) \/ isNaN(y) THEN NaN
    ELSE IF x.k = "inf" \/ y.k = "inf"
         THEN (IF Sign(x) * Sign(y) = 0 THEN NaN
               ELSE IF Sign(x) * Sign(y) > 0 THEN PosInf ELSE NegInf)
    ELSE Fin(x.num * y.num, x.den * y.den)

Div(x, y) ==
    IF isNaN(x) \/ isNaN(y) THEN NaN
    ELSE IF x.k = "inf" /\ y.k = "inf" THEN NaN
    ELSE IF x.k = "inf"
         THEN (IF Sign(x) * Sign(y) < 0 THEN NegInf ELSE PosInf)
    ELSE IF y.k = "inf" THEN Zero
    ELSE IF y.num = 0
         THEN (IF x.num = 0 THEN NaN ELSE IF x.num > 0 THEN PosInf ELSE NegInf)
    ELSE Fin(x.num * y.den, x.den * y.num)

\* Math.min(x, y) and Math.max(x, y): NaN if either argument is NaN
MathMin2(x, y) == IF isNaN(x) \/ isNaN(y) THEN NaN ELSE IF Less(y, x) THEN y ELSE x
MathMax2(x, y) == IF isNaN(x) \/ isNaN(y) THEN NaN ELSE IF Less(x, y) THEN y ELSE x

(***************************************************************************)
(* JavaScript values of the types a raw metric field can hold.             *)
(***************************************************************************)
JSNull       == [t |-> "null"]
JSUndefined  == [t |-> "undefined"]
JSNumber(n)  == [t |-> "number", n |-> n]
JSString(s)  == [t |-> "string", s |-> s]
JSBoolean(b) == [t |-> "boolean", b |-> b]
JSObject     == [t |-> "object"]

typeof(v) == IF v.t = "null" THEN "object" ELSE v.t

(***************************************************************************)
(* Strings are sequences of characters.                                    *)
(***************************************************************************)
WhiteSpace == {" ", "\t", "\n"}
Digits     == {"0", "1", "2", "3", "4", "5", "6", "7", "8", "9"}
DigitVal   == [c \in Digits |->
                 CASE c = "0" -> 0 [] c = "1" -> 1 [] c = "2" -> 2 [] c = "3" -> 3
                   [] c = "4" -> 4 [] c = "5" -> 5 [] c = "6" -> 6 [] c = "7" -> 7
                   [] c = "8" -> 8 [] c = "9" -> 9]

\* the commas are left in the string
KeepCommas(s) == s

\* value.replace(/,/g, "")
RECURSIVE ReplaceCommas(_)
ReplaceCommas(s) ==
    IF s = <<>> THEN <<>>
    ELSE IF Head(s) = "," THEN ReplaceCommas(Tail(s))
    ELSE <<Head(s)>> \o ReplaceCommas(Tail(s))

RECURSIVE TrimStart(_)
TrimStart(s) ==
    IF s # <<>> /\ Head(s) \in WhiteSpace THEN TrimStart(Tail(s)) ELSE s

RECURSIVE TrimEnd(_)
TrimEnd(s) ==
    IF s # <<>> /\ s[Len(s)] \in WhiteSpace
    THEN TrimEnd(SubSeq(s, 1, Len(s) - 1)) ELSE s

\* String.prototype.trim
Trim(s) == TrimEnd(TrimStart(s))

AllDigits(s) == \A i \in 1..Len(s) : s[i] \in Digits

RECURSIVE DigitsValue(_)
DigitsValue(s) ==
    IF s = <<>> THEN 0
    ELSE 10 * DigitsValue(SubSeq(s, 1, Len(s) - 1)) + DigitVal[s[Len(s)]]

RECURSIVE Pow10(_)
Pow10(n) == IF n = 0 THEN 1 ELSE 10 * Pow10(n - 1)

InfinityLiteral == <<"I", "n", "f", "i", "n", "i", "t", "y">>

\* the unsigned part of a StrDecimalLiteral: Infinity, digits, digits. ,
\* digits.digits or .digits; anything else is NaN
UnsignedDecimal(s) ==
    IF s = InfinityLiteral THEN PosInf
    ELSE LET dots == {i \in 1..Len(s) : s[i] = "."}
         IN  IF dots = {}
             THEN (IF s # <<>> /\ AllDigits(s) THEN Num(DigitsValue(s)) ELSE NaN)
             ELSE IF Cardinality(dots) > 1 THEN NaN
             ELSE LET p    == CHOOSE i \in dots : TRUE
                      int  == SubSeq(s, 1, p - 1)
                      frac == SubSeq(s, p + 1, Len(s))
                  IN  IF Len(int) + Len(frac) > 0 /\ AllDigits(int) /\ AllDigits(frac)
                      THEN Fin(DigitsValue(int) * Pow10(Len(frac)) + DigitsValue(frac),
                               Pow10(Len(frac)))
                      ELSE NaN

\* Number(s) on a string of the modelled characters (decimal literals,
\* signs, Infinity; no exponent and no radix prefix occurs in them)
StringToNumber(s) ==
    LET t == Trim(s)
    IN  IF t = <<>> THEN Zero
        ELSE IF Head(t) = "-" THEN
            (LET u == UnsignedDecimal(Tail(t)) IN IF isNaN(u) THEN NaN ELSE Neg(u))
        ELSE IF Head(t) = "+" THEN UnsignedDecimal(Tail(t))
        ELSE UnsignedDecimal(t)

(***************************************************************************)
(* cleanMetricValue                                                        *)
(***************************************************************************)
\* the branch that returns a number as it is, is missing
cleanMetricValueStringsOnly(v) ==
    IF v = JSNull \/ v = JSUndefined \/ v = JSString(<<>>) THEN Zero
    ELSE IF typeof(v) = "string" THEN
        LET cleanedString == Trim(ReplaceCommas(v.s))
        IN  IF cleanedString = <<>> THEN Zero
            ELSE LET num == StringToNumber(cleanedString)
                 IN  IF isNaN(num) THEN Zero ELSE num
    ELSE Zero

cleanMetricValue(v) ==
    IF v = JSNull \/ v = JSUndefined \/ v = JSString(<<>>) THEN Zero
    ELSE IF typeof(v) = "number" /\ ~isNaN(v.n) THEN v.n
    ELSE IF typeof(v) = "string" THEN
        LET cleanedString == Trim(ReplaceCommas(v.s))
        IN  IF cleanedString = <<>> THEN Zero
            ELSE LET num == StringToNumber(cleanedString)
                 IN  IF isNaN(num) THEN Zero ELSE num
    ELSE Zero

(***************************************************************************)
(* normalizeValue                                                          *)
(***************************************************************************)
\* the test max === min is missing
normalizeValueUnguarded(v, lo, hi) ==
    LET clampedValue == MathMax2(lo, MathMin2(v, hi))
    IN  Div(Sub(clampedValue, lo), Sub(hi, lo))

normalizeValue(v, lo, hi) ==
    IF StrictEq(hi, lo) THEN Zero
    ELSE LET clampedValue == MathMax2(lo, MathMin2(v, hi))
         IN  Div(Sub(clampedValue, lo), Sub(hi, lo))

(***************************************************************************)
(* Posts.  An object is a function from its own property names; reading a  *)
(* property the object lacks gives undefined.                              *)
(***************************************************************************)
metricKeys == <<"views", "reach", "interactions", "link_clicks">>

Get(obj, key) == IF key \in DOMAIN obj THEN obj[key] ELSE JSUndefined

\* seq.map(f)
RECURSIVE Map(_, _)
Map(f(_), seq) ==
    IF seq = <<>> THEN <<>> ELSE <<f(Head(seq))>> \o Map(f, Tail(seq))

\* views is cleaned from the reach field
cleanPostMetricsWrongField(post) ==
    [ post_id      |-> post.post_id,
      platform     |-> post.platform,
      views        |-> cleanMetricValue(Get(post, "reach")),
      reach        |-> cleanMetricValue(Get(post, "reach")),
      interactions |-> cleanMetricValue(Get(post, "interactions")),
      link_clicks  |-> cleanMetricValue(Get(post, "link_clicks")) ]

cleanPostMetrics(post) ==
    [ post_id      |-> post.post_id,
      platform     |-> post.platform,
      views        |-> cleanMetricValue(Get(post, "views")),
      reach        |-> cleanMetricValue(Get(post, "reach")),
      interactions |-> cleanMetricValue(Get(post, "interactions")),
      link_clicks  |-> cleanMetricValue(Get(post, "link_clicks")) ]

\* the post with its metric fields overwritten by their cleaned values
PostCleanedInPlace(post) ==
    [k \in DOMAIN post \cup {"views", "reach", "interactions", "link_clicks"} |->
        IF k \in {"views", "reach", "interactions", "link_clicks"}
        THEN cleanMetricValue(Get(post, k))
        ELSE post[k]]

\* the post given to cleanPostMetrics, after the call: the function reads its
\* fields into a new object literal and assigns nothing to it
PostAfterCleaning(post) == post

\* Math.min(...values) and Math.max(...values)
RECURSIVE MathMin(_)
MathMin(values) ==
    IF values = <<>> THEN PosInf ELSE MathMin2(Head(values), MathMin(Tail(values)))

\* the first of the values, taken for the largest
MathMaxOfFirst(values) ==
    IF values = <<>> THEN NegInf ELSE Head(values)

RECURSIVE MathMax(_)
MathMax(values) ==
    IF values = <<>> THEN NegInf ELSE MathMax2(Head(values), MathMax(Tail(values)))

IsNumber(v) == v.k \in {"fin", "inf", "nan"}

\* {min, max} of one metric, the min never above 0
MinMaxOfZeroFloor(cleanedPosts, key) ==
    LET Value(p) == p[key]
        values == SelectSeq(Map(Value, cleanedPosts), IsNumber)
    IN  IF Len(values) > 0
        THEN [min |-> MathMin(<<Zero>> \o values), max |-> MathMax(values)]
        ELSE [min |-> Zero, max |-> Zero]

\* {min, max} of one metric over the context
MinMaxOf(cleanedPosts, key) ==
    LET Value(p) == p[key]
        values == SelectSeq(Map(Value, cleanedPosts), IsNumber)
    IN  IF Len(values) > 0
        THEN [min |-> MathMin(values), max |-> MathMax(values)]
        ELSE [min |-> Zero, max |-> Zero]

\* the baseline: no key for an empty context, else {min, max} per metric
calculateMinMaxValues(cleanedPosts) ==
    IF Len(cleanedPosts) = 0 THEN <<>>
    ELSE [ views        |-> MinMaxOf(cleanedPosts, "views"),
           reach        |-> MinMaxOf(cleanedPosts, "reach"),
           interactions |-> MinMaxOf(cleanedPosts, "interactions"),
           link_clicks  |-> MinMaxOf(cleanedPosts, "link_clicks") ]

\* weights[key] ?? 0
WeightOf(w, key) == IF key \in DOMAIN w THEN w[key] ELSE Zero

\* the normalized value of a metric with a baseline, whatever its weight
NormalizedWhateverWeight(post, mm, w, key) ==
    IF key \in DOMAIN mm
    THEN normalizeValue(post[key], mm[key].min, mm[key].max)
    ELSE Zero

\* the normalized value calculatePostScore keeps for one metric
NormalizedOf(post, mm, w, key) ==
    IF key \in DOMAIN mm /\ Less(Zero, WeightOf(w, key))
    THEN normalizeValue(post[key], mm[key].min, mm[key].max)
    ELSE Zero

\* the sum of the normalized values, the weights left out
RECURSIVE CompositeUnweighted(_, _, _, _)
CompositeUnweighted(norms, mm, w, n) ==
    IF n = 0 THEN Zero
    ELSE LET key  == metricKeys[n]
             prev == CompositeUnweighted(norms, mm, w, n - 1)
         IN  IF key \in DOMAIN mm /\ Less(Zero, WeightOf(w, key))
             THEN Add(prev, norms[key])
             ELSE prev

\* compositeScore after the first n metric keys of the loop, norms being
\* the normalized values the loop computes
RECURSIVE CompositeUpTo(_, _, _, _)
CompositeUpTo(norms, mm, w, n) ==
    IF n = 0 THEN Zero
    ELSE LET key  == metricKeys[n]
             prev == CompositeUpTo(norms, mm, w, n - 1)
         IN  IF key \in DOMAIN mm /\ Less(Zero, WeightOf(w, key))
             THEN Add(prev, Mul(norms[key], WeightOf(w, key)))
             ELSE prev

calculatePostScore(post, mm, w) ==
    LET norms == [ views        |-> NormalizedOf(post, mm, w, "views"),
                   reach        |-> NormalizedOf(post, mm, w, "reach"),
                   interactions |-> NormalizedOf(post, mm, w, "interactions"),
                   link_clicks  |-> NormalizedOf(post, mm, w, "link_clicks") ]
    IN  post @@
        [ views_norm        |-> norms.views,
          reach_norm        |-> norms.reach,
          interactions_norm |-> norms.interactions,
          link_clicks_norm  |-> norms.link_clicks,
          composite_score   |-> Mul(CompositeUpTo(norms, mm, w, Len(metricKeys)), Num(100)) ]

(***************************************************************************)
(* rankPosts                                                               *)
(***************************************************************************)
\* the comparator (a, b) => b.composite_score - a.composite_score
CompareFn(a, b) == Sub(b.composite_score, a.composite_score)

\* what Array.prototype.sort makes of the comparator's value: NaN counts as 0
SortCompare(a, b) ==
    LET v == CompareFn(a, b) IN IF isNaN(v) THEN 0 ELSE Sign(v)

\* the comparator is a consistent comparison function for the elements
ConsistentComparator(seq) ==
    LET E == {seq[i] : i \in 1..Len(seq)}
        C == [a \in E, b \in E |-> SortCompare(a, b)]
    IN  \A a \in E, b \in E :
            /\ C[a, a] = 0
            /\ (C[a, b] < 0) = (C[b, a] > 0)
            /\ \A c \in E :
                /\ (C[a, b] = 0 /\ C[b, c] = 0) => C[a, c] = 0
                /\ (C[a, b] < 0 /\ C[b, c] < 0) => C[a, c] < 0
                /\ (C[a, b] > 0 /\ C[b, c] > 0) => C[a, c] > 0

Permutations1(n) == {p \in [1..n -> 1..n] : \A i, j \in 1..n : p[i] = p[j] => i = j}

\* the place of seq[i] in the stable sort: after every element the comparator
\* puts before it, and after the equal elements that precede it in seq
SortedPosition(seq, i) ==
    1 + Cardinality({j \in 1..Len(seq) :
                        \/ SortCompare(seq[j], seq[i]) < 0
                        \/ SortCompare(seq[j], seq[i]) = 0 /\ j < i})

\* the elements of seq at the places k..Len(seq) of the stable sort
RECURSIVE StableSortFrom(_, _)
StableSortFrom(seq, k) ==
    IF k > Len(seq) THEN <<>>
    ELSE <<seq[CHOOSE i \in 1..Len(seq) : SortedPosition(seq, i) = k]>>
             \o StableSortFrom(seq, k + 1)

StableSort(seq) == StableSortFrom(seq, 1)

\* seq in the order p
RECURSIVE PermuteFrom(_, _, _)
PermuteFrom(seq, p, k) ==
    IF k > Len(seq) THEN <<>> ELSE <<seq[p[k]]>> \o PermuteFrom(seq, p, k + 1)

\* the lists [...posts].sort(comparator) can produce: the stable sort when
\* the comparator is consistent, an implementation-defined order otherwise
SortOutcomes(seq) ==
    IF ConsistentComparator(seq) THEN {StableSort(seq)}
    ELSE {PermuteFrom(seq, p, 1) : p \in Permutations1(Len(seq))}

\* the array, sorted where it is
ArrayAfterSortInPlace(arr, sorted) == sorted

\* the array given to rankPosts, after the call: [...posts] is a copy, and
\* sort works on the copy
ArrayAfterSortOfCopy(arr, sorted) == arr

\* a later sort of any list, the engine choosing afresh among the outcomes
SortAnyOrderAgain(seq, before, outcome) == SortOutcomes(seq)

\* a later sort in the same engine, which sorted the list before into
\* outcome: the engine's sort is a function of the list, so the same list
\* comes out in the same order, implementation-defined or not
SortOutcomesAgain(seq, before, outcome) ==
    IF seq = before THEN {outcome} ELSE SortOutcomes(seq)

\* the map over sortedPosts, from position count with the loop's rank and lastScore
RECURSIVE RankFrom(_, _, _, _)
RankFrom(sorted, count, rank, lastScore) ==
    IF count > Len(sorted) THEN <<>>
    ELSE LET post    == sorted[count]
             changed == ~StrictEq(post.composite_score, lastScore)
             r       == IF changed THEN count ELSE rank
             l       == IF changed THEN post.composite_score ELSE lastScore
         IN  <<post @@ [rank_within_batch |-> r]>> \o RankFrom(sorted, count + 1, r, l)

\* count starts the loop at 0 and is incremented after the rank is taken
AssignRanksFromZero(sorted) ==
    LET ranked == RankFrom(sorted, 1, 1, NegInf)
    IN  [i \in 1..Len(ranked) |->
            [ranked[i] EXCEPT !.rank_within_batch = @ - 1]]

AssignRanks(sorted) == RankFrom(sorted, 1, 1, NegInf)

(***************************************************************************)
(* processAndScoreBatch                                                    *)
(***************************************************************************)
\* the historical posts alone as the context
MinMaxContextHistoricalOnly(cleanedNew, cleanedHistorical) == cleanedHistorical

\* the posts the baseline is computed over
MinMaxContext(cleanedNew, cleanedHistorical) == cleanedNew \o cleanedHistorical

\* every post of the context is scored
PostsToScoreWholeContext(cleanedNew, cleanedHistorical) ==
    cleanedNew \o cleanedHistorical

\* every post of the context whose post_id is the post_id of a new post
PostsToScoreByNewIds(cleanedNew, cleanedHistorical) ==
    LET newPostIds == {cleanedNew[i].post_id : i \in 1..Len(cleanedNew)}
        IsNew(p)   == p.post_id \in newPostIds
    IN  SelectSeq(cleanedNew \o cleanedHistorical, IsNew)

\* the posts that are scored and ranked
PostsToScore(cleanedNew, cleanedHistorical) == cleanedNew

(***************************************************************************)
(* The enumerated inputs.                                                  *)
(***************************************************************************)
Alphabet == {"1", "2", ",", " ", "-", ".", "a"}

NamedStrings ==
    { InfinityLiteral,
      <<"-">> \o InfinityLiteral,
      <<"a", "b", "c">>,
      <<"1", ",", "2", "3", "4">>,
      <<"1", "0", ",", "0", "0", "0">>,
      <<" ", "1", "2", ".", "5", " ">>,
      <<"N", "a", "N">> }

RawStrings ==
    NamedStrings \cup UNION {[1..n -> Alphabet] : n \in 0..MaxStrLen}

RawNumbers ==
    {Num(n) : n \in -1..MaxMetric} \cup {Fin(1, 2), NaN, PosInf, NegInf}

\* every raw value a metric field is given
RawValues ==
    {JSNull, JSUndefined, JSBoolean(TRUE), JSBoolean(FALSE), JSObject}
        \cup {JSNumber(n) : n \in RawNumbers}
        \cup {JSString(s) : s \in RawStrings}

\* the numbers cleanMetricValue can return: never NaN
CleanNumbers == RawNumbers \ {NaN}

Absent == [t |-> "absent"]

\* the object literal with the given fields, absent ones left out
RawPost(id, v, r, i, l) ==
    LET given == [views |-> v, reach |-> r, interactions |-> i, link_clicks |-> l]
        keys  == {k \in DOMAIN given : given[k] # Absent}
    IN  [post_id |-> id, platform |-> "Facebook"] @@ [k \in keys |-> given[k]]

PostIds == {"p1", "p2"}

\* the raw values of one field of the posts given to cleanPostMetrics alone
FieldSample ==
    { Absent, JSNull, JSNumber(NaN), JSNumber(Num(2)), JSObject,
      JSString(<<"1", ",", "2", "3", "4">>), JSString(<<"a", "b", "c">>),
      JSString(InfinityLiteral) }

\* the raw posts of a batch: two identifiers, and metrics that clean to
\* (views, reach) = (0, 0), (1, 2), (3, 0) and (Infinity, 2)
BatchPosts ==
    { RawPost("p1", Absent, JSNull, JSNumber(Num(1)), Absent),
      RawPost("p1", JSNumber(Num(1)), JSString(<<"2">>), JSNumber(Num(1)), Absent),
      RawPost("p2", JSNumber(Num(1)), JSString(<<"2">>), JSNumber(Num(1)), Absent),
      RawPost("p2", JSString(<<"3">>), JSNull, JSNumber(Num(1)), Absent),
      RawPost("p1", JSString(<<"3">>), JSNull, JSNumber(Num(1)), Absent),
      RawPost("p2", JSString(InfinityLiteral), JSString(<<"2">>), JSNumber(Num(1)), Absent) }

\* the raw posts of the historical context: those of the batch that clean to
\* (views, reach) = (0, 0), (1, 2) and (3, 0)
HistoricalBatchPosts ==
    { RawPost("p1", Absent, JSNull, JSNumber(Num(1)), Absent),
      RawPost("p1", JSNumber(Num(1)), JSString(<<"2">>), JSNumber(Num(1)), Absent),
      RawPost("p2", JSString(<<"3">>), JSNull, JSNumber(Num(1)), Absent) }

\* a batch of one post with reach 500
SinglePostBatches ==
    { <<RawPost("p1", JSNumber(Num(2)), JSNumber(Num(500)),
                JSString(<<"1", ",", "2", "3", "4">>), Absent)>> }

SeqsUpTo(S, n) == UNION {[1..m -> S] : m \in 0..n}

\* ENGAGEMENT_WEIGHTS of the analysis run, and weights with a zero and
\* with missing keys
WeightChoices ==
    { [views |-> Fin(15, 100), reach |-> Fin(25, 100),
       interactions |-> Fin(50, 100), link_clicks |-> Fin(10, 100)],
      [views |-> Num(1), reach |-> Num(1), interactions |-> Zero],
      [reach |-> Fin(1, 2)] }

\* the baselines given to calculatePostScore alone: MetricMinMax with no key,
\* with one key, and with the four keys
BaselineChoices ==
    { <<>>,
      [views |-> [min |-> Zero, max |-> Num(3)]],
      [views        |-> [min |-> Zero, max |-> Num(3)],
       reach        |-> [min |-> Zero, max |-> Num(2)],
       interactions |-> [min |-> Num(1), max |-> Num(1)],
       link_clicks  |-> [min |-> Zero, max |-> Zero]] }

\* the list of entities with the given scores, post_id k, k + 1, ...
RECURSIVE Tagged(_, _)
Tagged(scores, k) ==
    IF scores = <<>> THEN <<>>
    ELSE <<[post_id |-> k, composite_score |-> Head(scores)]>> \o Tagged(Tail(scores), k + 1)

\* the scores of the lists given to rankPosts alone
ScoreSample == {Num(30), Num(50), NaN, NegInf, PosInf}

\* a list given to rankPosts alone with two equal scores and a NaN between
\* scores of different size
TieScoreLists == { <<Num(30), NaN, Num(50), Num(30)>> }

\* the analysis runs, named in the order in which they start
Runs == 1..NumRuns

\* no last fetch timestamp is stored
Never == 0

\* a run of the POST handler before it starts: its locals, the value it has
\* stored as the timestamp, the requests it has made and its answer
InitialRun ==
    [ pc                 |-> "start",
      currentTimestamp   |-> Never,
      user               |-> "",
      lookup             |-> "",
      lastFetchTimestamp |-> Never,
      historicalPosts    |-> <<>>,
      newPosts           |-> <<>>,
      fetchFailed        |-> FALSE,
      scoredRankedPosts  |-> <<>>,
      stored             |-> Never,
      steps              |-> <<>>,
      status             |-> 0,
      error              |-> "" ]

vars == <<pc, value, min, max, result, previous, args, newPostsRaw, historicalPostsRaw, weights,
          cleanedNewPosts, cleanedHistoricalPosts, minMaxValues,
          posts, sortedPosts, rankedPosts, runs, db, clock>>

scalarVars == <<value, min, max, result, previous>>
batchVars  == <<newPostsRaw, historicalPostsRaw, weights,
                cleanedNewPosts, cleanedHistoricalPosts, minMaxValues>>
rankVars   == <<posts, sortedPosts, rankedPosts>>
runVars    == <<runs, db, clock>>
scoringVars == <<pc, scalarVars, args, batchVars, rankVars>>

Init ==
    /\ pc = "idle"
    /\ value = JSUndefined
    /\ min = Zero
    /\ max = Zero
    /\ result = Zero
    /\ previous = Zero
    /\ args = <<>>
    /\ newPostsRaw = <<>>
    /\ historicalPostsRaw = <<>>
    /\ weights = <<>>
    /\ cleanedNewPosts = <<>>
    /\ cleanedHistoricalPosts = <<>>
    /\ minMaxValues = <<>>
    /\ posts = <<>>
    /\ sortedPosts = <<>>
    /\ rankedPosts = <<>>
    /\ runs = [r \in Runs |-> InitialRun]
    /\ db = [lastFetch |-> Never, social_posts |-> {}]
    /\ clock = 0

\* one call cleanMetricValue(v)
CallCleanMetricValue ==
    /\ pc = "idle"
    /\ \E v \in RawValues :
            /\ pc' = "cleanMetricValue"
            /\ value' = v
            /\ result' = cleanMetricValue(v)
            /\ UNCHANGED <<min, max, previous, args, batchVars, rankVars, runVars>>

\* a cleaned value is cleaned again (a stored metric read back as context)
CallCleanMetricValueAgain ==
    /\ pc = "cleanMetricValue"
    /\ pc' = "cleanMetricValueAgain"
    /\ previous' = result
    /\ value' = JSNumber(result)
    /\ result' = cleanMetricValue(value')
    /\ UNCHANGED <<min, max, args, batchVars, rankVars, runVars>>

\* one call normalizeValue(v, lo, hi) on cleaned numbers
CallNormalizeValue ==
    /\ pc = "idle"
    /\ \E v \in CleanNumbers, lo \in CleanNumbers, hi \in CleanNumbers :
            /\ pc' = "normalizeValue"
            /\ value' = JSNumber(v)
            /\ min' = lo
            /\ max' = hi
            /\ result' = normalizeValue(v, lo, hi)
            /\ UNCHANGED <<previous, args, batchVars, rankVars, runVars>>

\* one call cleanPostMetrics(post)
CallCleanPostMetrics ==
    /\ pc = "idle"
    /\ \E v \in FieldSample, r \in FieldSample, i \in FieldSample, l \in FieldSample :
            /\ pc' = "cleanPostMetrics"
            /\ args' = <<RawPost("p1", v, r, i, l)>>
            /\ newPostsRaw' = Map(PostAfterCleaning, args')
            /\ cleanedNewPosts' = Map(cleanPostMetrics, args')
            /\ UNCHANGED <<runVars, scalarVars, historicalPostsRaw, weights, cleanedHistoricalPosts,
                           minMaxValues, rankVars>>

\* one call calculatePostScore(post, mm, w) on a cleaned post
CallCalculatePostScore ==
    /\ pc = "idle"
    /\ pc' = "calculatePostScore"
    /\ \E raw \in BatchPosts : cleanedNewPosts' = <<cleanPostMetrics(raw)>>
    /\ minMaxValues' \in BaselineChoices
    /\ weights' \in WeightChoices
    /\ posts' = <<calculatePostScore(cleanedNewPosts'[1], minMaxValues', weights')>>
    /\ UNCHANGED <<runVars, scalarVars, args, newPostsRaw, historicalPostsRaw,
                   cleanedHistoricalPosts, sortedPosts, rankedPosts>>

\* one call rankPosts(list)
CallRankPosts ==
    /\ pc = "idle"
    /\ pc' = "rankPosts"
    /\ \E scores \in SeqsUpTo(ScoreSample, MaxPosts) \cup TieScoreLists :
           args' = Tagged(scores, 1)
    /\ sortedPosts' \in SortOutcomes(args')
    /\ posts' = ArrayAfterSortOfCopy(args', sortedPosts')
    /\ rankedPosts' = AssignRanks(sortedPosts')
    /\ UNCHANGED <<scalarVars, batchVars, runVars>>

\* one call processAndScoreBatch(new, historical, w), rankPosts included
CallProcessAndScoreBatch ==
    /\ pc = "idle"
    /\ pc' = "processAndScoreBatch"
    /\ \E new \in SeqsUpTo(BatchPosts, MaxPosts) \cup SinglePostBatches :
        \E historical \in SeqsUpTo(HistoricalBatchPosts, MaxPosts - Len(new)) :
            \E w \in WeightChoices :
                args' = [newPostsRaw |-> new, historicalPostsRaw |-> historical,
                          weights |-> w]
    /\ cleanedNewPosts' = Map(cleanPostMetrics, args'.newPostsRaw)
    /\ cleanedHistoricalPosts' = Map(cleanPostMetrics, args'.historicalPostsRaw)
    /\ newPostsRaw' = Map(PostAfterCleaning, args'.newPostsRaw)
    /\ historicalPostsRaw' = Map(PostAfterCleaning, args'.historicalPostsRaw)
    /\ weights' = args'.weights
    /\ minMaxValues' =
           calculateMinMaxValues(MinMaxContext(cleanedNewPosts', cleanedHistoricalPosts'))
    /\ LET Score(p) == calculatePostScore(p, minMaxValues', weights')
       IN  posts' = Map(Score, PostsToScore(cleanedNewPosts', cleanedHistoricalPosts'))
    /\ sortedPosts' \in SortOutcomes(posts')
    /\ rankedPosts' = AssignRanks(sortedPosts')
    /\ UNCHANGED <<scalarVars, runVars>>

\* a second call processAndScoreBatch(new, historical, w) with the arguments
\* of the call before, whose result is kept to compare
CallProcessAndScoreBatchAgain ==
    /\ pc = "processAndScoreBatch"
    /\ pc' = "processAndScoreBatchAgain"
    /\ previous' = rankedPosts
    /\ args' = [newPostsRaw |-> newPostsRaw, historicalPostsRaw |-> historicalPostsRaw,
                  weights |-> weights]
    /\ cleanedNewPosts' = Map(cleanPostMetrics, args'.newPostsRaw)
    /\ cleanedHistoricalPosts' = Map(cleanPostMetrics, args'.historicalPostsRaw)
    /\ newPostsRaw' = Map(PostAfterCleaning, args'.newPostsRaw)
    /\ historicalPostsRaw' = Map(PostAfterCleaning, args'.historicalPostsRaw)
    /\ weights' = args'.weights
    /\ minMaxValues' =
           calculateMinMaxValues(MinMaxContext(cleanedNewPosts', cleanedHistoricalPosts'))
    /\ LET Score(p) == calculatePostScore(p, minMaxValues', weights')
       IN  posts' = Map(Score, PostsToScore(cleanedNewPosts', cleanedHistoricalPosts'))
    /\ sortedPosts' \in SortOutcomesAgain(posts', posts, sortedPosts)
    /\ rankedPosts' = AssignRanks(sortedPosts')
    /\ UNCHANGED <<value, min, max, result, runVars>>

\* the call returns; its arguments and locals are gone
Return ==
    /\ pc # "idle"
    /\ pc' = "idle"
    /\ value' = JSUndefined
    /\ min' = Zero
    /\ max' = Zero
    /\ result' = Zero
    /\ previous' = Zero
    /\ args' = <<>>
    /\ newPostsRaw' = <<>>
    /\ historicalPostsRaw' = <<>>
    /\ weights' = <<>>
    /\ cleanedNewPosts' = <<>>
    /\ cleanedHistoricalPosts' = <<>>
    /\ minMaxValues' = <<>>
    /\ posts' = <<>>
    /\ sortedPosts' = <<>>
    /\ rankedPosts' = <<>>
    /\ UNCHANGED runVars

Next ==
    \/ CallCleanMetricValue
    \/ CallCleanMetricValueAgain
    \/ CallNormalizeValue
    \/ CallCleanPostMetrics
    \/ CallCalculatePostScore
    \/ CallRankPosts
    \/ CallProcessAndScoreBatch
    \/ CallProcessAndScoreBatchAgain
    \/ Return

Spec == Init /\ [][Next]_vars

(***************************************************************************)
(* The analysis run: POST /api/v1/analysis/run.  Every await of the        *)
(* handler is one step, so that the steps of concurrent runs interleave;   *)
(* the code between two awaits runs with the step that ends it.            *)
(***************************************************************************)
ENGAGEMENT_WEIGHTS ==
    [ views        |-> Fin(15, 100),
      reach        |-> Fin(25, 100),
      interactions |-> Fin(50, 100),
      link_clicks  |-> Fin(10, 100) ]

\* the posts the Meta API has for the page, oldest first
MetaFeed ==
    << RawPost("p1", JSNumber(Num(1)), JSNumber(Num(2)), JSNumber(Num(1)), JSNumber(Zero)),
       RawPost("p2", JSNumber(Num(3)), JSNumber(Num(1)), JSNumber(Num(2)), JSNumber(Num(1))) >>

\* what fetchNewPostsFromMetaAPI returns: the posts of the feed that are new
\* since the timestamp, or, when a request threw or a page was not OK
\* (failed), those retrieved before that, which are not the whole feed
FetchOutcomes ==
    { [posts |-> SubSeq(MetaFeed, 1, n), failed |-> FALSE] : n \in 0..Len(MetaFeed) }
        \cup { [posts |-> SubSeq(MetaFeed, 1, n), failed |-> TRUE] :
                   n \in 0..(Len(MetaFeed) - 1) }

\* supabase.auth.getUser()
AuthOutcomes == {"user", "noEmail", "noUser", "authError"}

\* the select of isUserAllowed on allowed_users
LookupOutcomes == {"row", "noRow", "error"}

\* a database request succeeds or reports an error
DbOutcomes == {"ok", "error"}

\* the lookup failing open: only a missing row refuses the user
isUserAllowedFailOpen(lookup) == lookup # "noRow"

\* isUserAllowed: false on an error, else whether a row was found
isUserAllowed(lookup) == IF lookup = "error" THEN FALSE ELSE lookup = "row"

\* the run with one more step in its log
Logged(run, step) == [run EXCEPT !.steps = Append(@, step)]

\* the run after NextResponse.json(body, {status})
Respond(run, status, error) ==
    [run EXCEPT !.pc = "done", !.status = status, !.error = error]

\* the run after a throw inside the try block: the catch answers 500
Catch(run) == Respond(run, 500, "Analysis run failed")

\* the upsert error only logged: the run goes on to the timestamp
UpsertErrorLogged(run) == [run EXCEPT !.pc = "writeTimestamp"]

\* the run after the upsert of the scored posts reported an error
UpsertError(run) == Catch(run)

\* the last fetch timestamp read back as the value to store
TimestampReadBack(run) == run.lastFetchTimestamp

\* the value_timestamp the run stores: currentTimestampISO
TimestampToStore(run) == run.currentTimestamp

\* the early return without the timestamp write
NoNewPostsReturn(run) == Respond(run, 200, "")

\* the run after the fetch returned no posts: it goes to the timestamp write
NoNewPosts(run) == [run EXCEPT !.pc = "writeTimestampNoPosts"]

\* the upsert skipped whatever finalUpsertData holds
AfterScoringNoUpsert(finalUpsertData) == "writeTimestamp"

\* where the run goes after scoring: the upsert if there is data to save
AfterScoring(finalUpsertData) ==
    IF Len(finalUpsertData) > 0 THEN "upsertPosts" ELSE "writeTimestamp"

\* a row of social_posts as fetchAllHistoricalPosts maps it
HistoricalPostOf(row) ==
    [ post_id      |-> row.post_id,
      platform     |-> row.platform,
      views        |-> JSNumber(row.views),
      reach        |-> JSNumber(row.reach),
      interactions |-> JSNumber(row.interactions),
      link_clicks  |-> JSNumber(row.link_clicks) ]

\* the rows of social_posts as one list, in the order of the feed
RECURSIVE RowsInOrder(_, _)
RowsInOrder(rows, i) ==
    IF i > Len(MetaFeed) THEN <<>>
    ELSE LET found == {row \in rows : row.post_id = MetaFeed[i].post_id}
         IN  (IF found = {} THEN <<>> ELSE <<CHOOSE row \in found : TRUE>>)
             \o RowsInOrder(rows, i + 1)

\* fetchAllHistoricalPosts: every row of social_posts, mapped
fetchAllHistoricalPosts(rows) == Map(HistoricalPostOf, RowsInOrder(rows, 1))

\* the lists processAndScoreBatch can return
processAndScoreBatch(newPosts, historicalPosts, w) ==
    LET cleanedNew        == Map(cleanPostMetrics, newPosts)
        cleanedHistorical == Map(cleanPostMetrics, historicalPosts)
        mm     == calculateMinMaxValues(MinMaxContext(cleanedNew, cleanedHistorical))
        Score(post) == calculatePostScore(post, mm, w)
        scored == Map(Score, PostsToScore(cleanedNew, cleanedHistorical))
    IN  {AssignRanks(sorted) : sorted \in SortOutcomes(scored)}

\* one element of finalUpsertData
FinalUpsertRow(scoredPost) ==
    [ post_id           |-> scoredPost.post_id,
      platform          |-> scoredPost.platform,
      views             |-> scoredPost.views,
      reach             |-> scoredPost.reach,
      interactions      |-> scoredPost.interactions,
      link_clicks       |-> scoredPost.link_clicks,
      composite_score   |-> scoredPost.composite_score,
      rank_within_batch |-> scoredPost.rank_within_batch ]

\* social_posts after upsert(data, {onConflict: "post_id"})
Upserted(rows, data) ==
    LET ids == {data[i].post_id : i \in 1..Len(data)}
    IN  {row \in rows : row.post_id \notin ids} \cup {data[i] : i \in 1..Len(data)}

\* the handler is entered: the run takes the time as its currentTimestampISO
StartRun(r) ==
    /\ runs[r].pc = "start"
    /\ IF r = 1 THEN TRUE ELSE runs[r - 1].pc # "start"
    /\ clock' = clock + 1
    /\ runs' = [runs EXCEPT ![r] =
                   [@ EXCEPT !.pc = "getUser", !.currentTimestamp = clock']]
    /\ UNCHANGED <<db, scoringVars>>

\* await supabase.auth.getUser(), and the 401 answer
GetUser(r) ==
    /\ runs[r].pc = "getUser"
    /\ \E auth \in AuthOutcomes :
           runs' = [runs EXCEPT ![r] =
               IF auth = "user"
               THEN [Logged(@, "getUser") EXCEPT !.pc = "isUserAllowed", !.user = auth]
               ELSE Respond([Logged(@, "getUser") EXCEPT !.user = auth],
                            401, "Unauthorized")]
    /\ UNCHANGED <<db, clock, scoringVars>>

\* await isUserAllowed(user.email, supabase), and the 403 answer
IsUserAllowed(r) ==
    /\ runs[r].pc = "isUserAllowed"
    /\ \E lookup \in LookupOutcomes :
           runs' = [runs EXCEPT ![r] =
               IF isUserAllowed(lookup)
               THEN [Logged(@, "isUserAllowed") EXCEPT
                        !.pc = "readLastFetch", !.lookup = lookup]
               ELSE Respond([Logged(@, "isUserAllowed") EXCEPT !.lookup = lookup],
                            403, "Forbidden")]
    /\ UNCHANGED <<db, clock, scoringVars>>

\* await of the select of value_timestamp: an error is only logged and
\* leaves lastFetchTimestamp undefined
ReadLastFetch(r) ==
    /\ runs[r].pc = "readLastFetch"
    /\ \E outcome \in DbOutcomes :
           runs' = [runs EXCEPT ![r] =
               [Logged(@, "readLastFetch") EXCEPT
                   !.pc = "fetchAllHistoricalPosts",
                   !.lastFetchTimestamp =
                       IF outcome = "ok" THEN db.lastFetch ELSE Never]]
    /\ UNCHANGED <<db, clock, scoringVars>>

\* await fetchAllHistoricalPosts(supabase): it throws on an error
FetchAllHistoricalPosts(r) ==
    /\ runs[r].pc = "fetchAllHistoricalPosts"
    /\ \E outcome \in DbOutcomes :
           runs' = [runs EXCEPT ![r] =
               IF outcome = "ok"
               THEN [Logged(@, "fetchAllHistoricalPosts") EXCEPT
                        !.pc = "fetchNewPostsFromMetaAPI",
                        !.historicalPosts = fetchAllHistoricalPosts(db.social_posts)]
               ELSE Catch(Logged(@, "fetchAllHistoricalPosts:error"))]
    /\ UNCHANGED <<db, clock, scoringVars>>

\* await fetchNewPostsFromMetaAPI(lastFetchTimestamp) throws: the
\* environment variables are missing
FetchNewPostsThrows(r) ==
    /\ runs[r].pc = "fetchNewPostsFromMetaAPI"
    /\ runs' = [runs EXCEPT ![r] =
                   Catch(Logged(@, "fetchNewPostsFromMetaAPI:error"))]
    /\ UNCHANGED <<db, clock, scoringVars>>

\* await fetchNewPostsFromMetaAPI(lastFetchTimestamp) returns, and the code
\* up to the next await: the early branch, or processAndScoreBatch and the
\* mapping to finalUpsertData
FetchNewPostsFromMetaAPI(r) ==
    /\ runs[r].pc = "fetchNewPostsFromMetaAPI"
    /\ \E fetched \in FetchOutcomes :
           IF Len(fetched.posts) = 0
           THEN runs' = [runs EXCEPT ![r] =
                    NoNewPosts([Logged(@, "fetchNewPostsFromMetaAPI") EXCEPT
                                   !.fetchFailed = fetched.failed])]
           ELSE \E scored \in processAndScoreBatch(fetched.posts,
                                  runs[r].historicalPosts, ENGAGEMENT_WEIGHTS) :
                    runs' = [runs EXCEPT ![r] =
                        [Logged(Logged(@, "fetchNewPostsFromMetaAPI"),
                                "processAndScoreBatch") EXCEPT
                            !.pc = AfterScoring(Map(FinalUpsertRow, scored)),
                            !.newPosts = fetched.posts,
                            !.fetchFailed = fetched.failed,
                            !.scoredRankedPosts = scored]]
    /\ UNCHANGED <<db, clock, scoringVars>>

\* await of the upsert of finalUpsertData into social_posts
UpsertPosts(r) ==
    /\ runs[r].pc = "upsertPosts"
    /\ \E outcome \in DbOutcomes :
           IF outcome = "ok"
           THEN /\ db' = [db EXCEPT !.social_posts =
                             Upserted(@, Map(FinalUpsertRow, runs[r].scoredRankedPosts))]
                /\ runs' = [runs EXCEPT ![r] =
                               [Logged(@, "upsertPosts") EXCEPT !.pc = "writeTimestamp"]]
           ELSE /\ db' = db
                /\ runs' = [runs EXCEPT ![r] =
                               UpsertError(Logged(@, "upsertPosts:error"))]
    /\ UNCHANGED <<clock, scoringVars>>

\* await of the upsert of the timestamp into app_metadata and the answer:
\* an error of the write is only logged
StoreTimestamp(r) ==
    \E outcome \in DbOutcomes :
        IF outcome = "ok"
        THEN /\ db' = [db EXCEPT !.lastFetch = TimestampToStore(runs[r])]
             /\ runs' = [runs EXCEPT ![r] =
                            Respond([Logged(@, "writeTimestamp") EXCEPT
                                        !.stored = TimestampToStore(runs[r])], 200, "")]
        ELSE /\ db' = db
             /\ runs' = [runs EXCEPT ![r] =
                            Respond(Logged(@, "writeTimestamp:error"), 200, "")]

\* the timestamp write of the branch without new posts
WriteTimestampNoPosts(r) ==
    /\ runs[r].pc = "writeTimestampNoPosts"
    /\ StoreTimestamp(r)
    /\ UNCHANGED <<clock, scoringVars>>

\* the timestamp write after the upsert of the scored posts
WriteTimestamp(r) ==
    /\ runs[r].pc = "writeTimestamp"
    /\ StoreTimestamp(r)
    /\ UNCHANGED <<clock, scoringVars>>

RunNext ==
    \E r \in Runs :
        \/ StartRun(r)
        \/ GetUser(r)
        \/ IsUserAllowed(r)
        \/ ReadLastFetch(r)
        \/ FetchAllHistoricalPosts(r)
        \/ FetchNewPostsThrows(r)
        \/ FetchNewPostsFromMetaAPI(r)
        \/ UpsertPosts(r)
        \/ WriteTimestampNoPosts(r)
        \/ WriteTimestamp(r)

RunSpec == Init /\ [][RunNext]_vars

(***************************************************************************)
(* The properties.                                                         *)
(***************************************************************************)
Ranked == pc \in {"rankPosts", "processAndScoreBatch"}

Keys == {metricKeys[i] : i \in 1..Len(metricKeys)}

NormField == [views |-> "views_norm", reach |-> "reach_norm",
              interactions |-> "interactions_norm", link_clicks |-> "link_clicks_norm"]

GreaterEq(x, y) == LessEq(y, x)

\* the scored entry is the one made from the raw post
EntryOf(entry, raw) ==
    /\ entry.post_id = raw.post_id
    /\ \A key \in Keys : entry[key] = cleanMetricValue(Get(raw, key))

Ids(seq) == {seq[i].post_id : i \in 1..Len(seq)}

\* C1: processAndScoreBatch returns exactly one entry per element of
\* newPostsRaw and no entry for a post that occurs only in historicalPostsRaw.
C1_OnlyNewPostsEmitted ==
    pc = "processAndScoreBatch" =>
        /\ Len(rankedPosts) = Len(newPostsRaw)
        /\ \E p \in Permutations1(Len(newPostsRaw)) :
               \A i \in 1..Len(newPostsRaw) : EntryOf(rankedPosts[i], newPostsRaw[p[i]])
        /\ \A id \in Ids(historicalPostsRaw) \ Ids(newPostsRaw) : id \notin Ids(rankedPosts)

C1_Witness ==
    /\ pc = "processAndScoreBatch"
    /\ Len(newPostsRaw) = 2
    /\ Len(historicalPostsRaw) = 1
    /\ historicalPostsRaw[1].post_id \notin Ids(newPostsRaw)
    /\ Len(rankedPosts) = 2

\* C2: the list rankPosts returns holds the posts in descending order of
\* composite_score; the first has rank 1 and every later one has the rank of the
\* post before it when their scores are exactly equal, else its own position.
C2_SortedDescendingPositionRanks ==
    Ranked =>
        /\ Len(rankedPosts) = Len(posts)
        /\ \E p \in Permutations1(Len(posts)) :
               \A i \in 1..Len(posts) :
                   rankedPosts[i] = posts[p[i]]
                       @@ [rank_within_batch |-> rankedPosts[i].rank_within_batch]
        /\ \A i \in 1..(Len(rankedPosts) - 1) :
               GreaterEq(rankedPosts[i].composite_score, rankedPosts[i + 1].composite_score)
        /\ \A i \in 1..Len(rankedPosts) :
               rankedPosts[i].rank_within_batch =
                   IF i = 1 THEN 1
                   ELSE IF StrictEq(rankedPosts[i].composite_score,
                                    rankedPosts[i - 1].composite_score)
                        THEN rankedPosts[i - 1].rank_within_batch
                        ELSE i

\* C3: the rank of every post is 1 plus the number of posts of the list whose
\* composite_score is strictly greater.
C3_RankIsOnePlusStrictlyGreater ==
    Ranked =>
        \A i \in 1..Len(rankedPosts) :
            rankedPosts[i].rank_within_batch =
                1 + Cardinality({j \in 1..Len(rankedPosts) :
                                    Less(rankedPosts[i].composite_score,
                                         rankedPosts[j].composite_score)})

\* C4: along the returned list the ranks never decrease and the scores never
\* increase.
C4_RankMonotone ==
    Ranked =>
        \A i \in 1..(Len(rankedPosts) - 1) :
            /\ rankedPosts[i].rank_within_batch <= rankedPosts[i + 1].rank_within_batch
            /\ GreaterEq(rankedPosts[i].composite_score, rankedPosts[i + 1].composite_score)

\* C5: every returned entry has a rank between 1 and the number of returned
\* entries, and a non-empty result has an entry of rank 1.
C5_RanksWithinBatch ==
    Ranked =>
        /\ \A i \in 1..Len(rankedPosts) :
               rankedPosts[i].rank_within_batch \in 1..Len(rankedPosts)
        /\ Len(rankedPosts) > 0 =>
               \E i \in 1..Len(rankedPosts) : rankedPosts[i].rank_within_batch = 1

C5_Witness ==
    /\ pc = "processAndScoreBatch"
    /\ Len(rankedPosts) = 3
    /\ {rankedPosts[i].rank_within_batch : i \in 1..3} = {1, 3}

\* the string is not a number once its commas are removed and it is trimmed
Unparsable(str) == isNaN(StringToNumber(Trim(ReplaceCommas(str))))

\* the raw value is missing or does not hold a number
MissingOrUnparsable(v) ==
    \/ typeof(v) \notin {"number", "string"}
    \/ typeof(v) = "number" /\ isNaN(v.n)
    \/ typeof(v) = "string" /\ (v.s = <<>> \/ Unparsable(v.s))

\* C6: cleanMetricValue gives 0 for null, undefined, the empty string, a string
\* that is no number and a value that is neither number nor string, gives 1234
\* for "1,234", and gives a number for every input.
C6_CleaningTotality ==
    pc = "cleanMetricValue" =>
        /\ IsNumber(result)
        /\ value \in {JSNull, JSUndefined, JSString(<<>>)} => result = Zero
        /\ typeof(value) \notin {"number", "string"} => result = Zero
        /\ (typeof(value) = "string" /\ Unparsable(value.s)) => result = Zero
        /\ value = JSString(<<"a", "b", "c">>) => result = Zero
        /\ value = JSString(<<"1", ",", "2", "3", "4">>) => result = Num(1234)
        /\ value = JSString(<<" ", "1", "2", ".", "5", " ">>) => result = Fin(25, 2)

C6_Witness ==
    /\ pc = "cleanMetricValue"
    /\ value = JSString(<<"1", ",", "2", "3", "4">>)
    /\ result = Num(1234)

\* C7: every metric field of a cleaned post is a number that is not NaN, and
\* is 0 when the raw field is missing or unparsable.
C7_CleanedPostInvariant ==
    pc \in {"cleanPostMetrics", "processAndScoreBatch"} =>
        /\ Len(cleanedNewPosts) = Len(newPostsRaw)
        /\ Len(cleanedHistoricalPosts) = Len(historicalPostsRaw)
        /\ \A key \in Keys :
            /\ \A i \in 1..Len(newPostsRaw) :
                /\ IsNumber(cleanedNewPosts[i][key]) /\ ~isNaN(cleanedNewPosts[i][key])
                /\ MissingOrUnparsable(Get(newPostsRaw[i], key))
                       => cleanedNewPosts[i][key] = Zero
            /\ \A i \in 1..Len(historicalPostsRaw) :
                /\ IsNumber(cleanedHistoricalPosts[i][key])
                /\ ~isNaN(cleanedHistoricalPosts[i][key])
                /\ MissingOrUnparsable(Get(historicalPostsRaw[i], key))
                       => cleanedHistoricalPosts[i][key] = Zero

C7_Witness ==
    /\ pc = "cleanPostMetrics"
    /\ "views" \notin DOMAIN newPostsRaw[1]
    /\ Get(newPostsRaw[1], "reach") = JSString(<<"1", ",", "2", "3", "4">>)
    /\ Get(newPostsRaw[1], "interactions") = JSNumber(NaN)
    /\ Get(newPostsRaw[1], "link_clicks") = JSString(<<"a", "b", "c">>)
    /\ cleanedNewPosts[1].views = Zero
    /\ cleanedNewPosts[1].reach = Num(1234)
    /\ cleanedNewPosts[1].interactions = Zero
    /\ cleanedNewPosts[1].link_clicks = Zero

\* C8: cleaning a cleaned value gives the same value, and cleaning a number
\* x >= 0 gives x.
C8_CleaningIdempotent ==
    /\ pc = "cleanMetricValueAgain" => result = previous
    /\ (pc = "cleanMetricValue" /\ typeof(value) = "number" /\ LessEq(Zero, value.n))
           => result = value.n

C8_Witness ==
    /\ pc = "cleanMetricValueAgain"
    /\ previous = Fin(25, 2)
    /\ result = Fin(25, 2)

\* C9: cleanMetricValue returns a finite number for every raw input.
C9_CleanedIsFinite ==
    pc \in {"cleanMetricValue", "cleanMetricValueAgain"} => isFinite(result)

\* C10: when the baseline of a metric has max equal to min, normalizeValue gives
\* 0 for every value, inside or outside the baseline, and the normalized value
\* of every scored post for that metric is 0.
C10_ZeroVarianceNormalizesToZero ==
    /\ (pc = "normalizeValue" /\ StrictEq(max, min)) => result = Zero
    /\ pc = "processAndScoreBatch" =>
           \A key \in DOMAIN minMaxValues :
               StrictEq(minMaxValues[key].max, minMaxValues[key].min) =>
                   \A i \in 1..Len(rankedPosts) : rankedPosts[i][NormField[key]] = Zero

C10_Witness ==
    /\ pc = "normalizeValue"
    /\ min = Num(2)
    /\ max = Num(2)
    /\ value = JSNumber(Num(3))
    /\ result = Zero

\* C11: for min < max, normalizeValue gives a number in [0, 1] for a value in
\* [min, max], 0 for a value at or below min and 1 for a value at or above max.
C11_NormalizationBounded ==
    (pc = "normalizeValue" /\ Less(min, max)) =>
        /\ (LessEq(min, value.n) /\ LessEq(value.n, max))
               => (LessEq(Zero, result) /\ LessEq(result, Num(1)))
        /\ LessEq(value.n, min) => result = Zero
        /\ LessEq(max, value.n) => result = Num(1)

\* weight times normalized value of one metric of a scored entry
WeightedNorm(entry, w, key) == Mul(WeightOf(w, key), entry[NormField[key]])

\* C12: the composite_score of every emitted post is 100 times the sum over
\* views, reach, interactions and link_clicks of the metric's weight times the
\* post's normalized value, which for a metric of positive weight is the post's
\* value normalized against the baseline.
C12_CompositeIsWeightedSum ==
    pc = "processAndScoreBatch" =>
        \A i \in 1..Len(rankedPosts) :
            LET e == rankedPosts[i] IN
            /\ e.composite_score =
                   Mul(Num(100),
                       Add(Add(WeightedNorm(e, weights, "views"),
                               WeightedNorm(e, weights, "reach")),
                           Add(WeightedNorm(e, weights, "interactions"),
                               WeightedNorm(e, weights, "link_clicks"))))
            /\ \A key \in Keys :
                   Less(Zero, WeightOf(weights, key)) =>
                       e[NormField[key]] =
                           normalizeValue(e[key], minMaxValues[key].min, minMaxValues[key].max)

C12_Witness ==
    /\ pc = "processAndScoreBatch"
    /\ weights = [views |-> Fin(15, 100), reach |-> Fin(25, 100),
                  interactions |-> Fin(50, 100), link_clicks |-> Fin(10, 100)]
    /\ \E i \in 1..Len(rankedPosts) :
           /\ rankedPosts[i].views_norm = Fin(1, 3)
           /\ rankedPosts[i].reach_norm = Num(1)
           /\ rankedPosts[i].composite_score = Num(30)

\* C13: with every weight in [0, 1], the composite_score of every post
\* processAndScoreBatch emits lies between 0 and 100.
C13_ScoreWithinZeroToHundred ==
    (/\ pc = "processAndScoreBatch"
     /\ \A key \in DOMAIN weights :
            LessEq(Zero, weights[key]) /\ LessEq(weights[key], Num(1))) =>
        \A i \in 1..Len(rankedPosts) :
            /\ LessEq(Zero, rankedPosts[i].composite_score)
            /\ LessEq(rankedPosts[i].composite_score, Num(100))

\* the metric has weight 0, no weight, or no baseline
NoWeightOrBaseline(mm, w, key) ==
    \/ key \notin DOMAIN w
    \/ w[key] = Zero
    \/ key \notin DOMAIN mm

\* C14: for a metric whose weight is 0 or absent or whose baseline is missing,
\* calculatePostScore emits the <metric>_norm field with value 0, and the
\* scored entry is the same, composite_score included, whatever value the post
\* has for that metric.
C14_UnweightedMetricNormIsZero ==
    /\ pc \in {"calculatePostScore", "processAndScoreBatch"} =>
           \A i \in 1..Len(posts) : \A key \in Keys :
               NoWeightOrBaseline(minMaxValues, weights, key) =>
                   /\ NormField[key] \in DOMAIN posts[i]
                   /\ posts[i][NormField[key]] = Zero
    /\ pc = "calculatePostScore" =>
           \A key \in Keys :
               NoWeightOrBaseline(minMaxValues, weights, key) =>
                   \A x \in CleanNumbers :
                       calculatePostScore([cleanedNewPosts[1] EXCEPT ![key] = x],
                                          minMaxValues, weights)
                           = [posts[1] EXCEPT ![key] = x]

C14_Witness ==
    /\ pc = "calculatePostScore"
    /\ DOMAIN minMaxValues = {"views"}
    /\ weights = [views |-> Num(1), reach |-> Num(1), interactions |-> Zero]
    /\ cleanedNewPosts[1].views = Num(1)
    /\ cleanedNewPosts[1].reach = Num(2)
    /\ posts[1].views_norm = Fin(1, 3)
    /\ posts[1].reach_norm = Zero
    /\ posts[1].interactions_norm = Zero
    /\ posts[1].link_clicks_norm = Zero
    /\ posts[1].composite_score = Fin(100, 3)

\* C15: in processAndScoreBatch every metric has a baseline, and every new
\* post's cleaned value v of the metric satisfies min <= v <= max of that
\* baseline, so clamping v into [min, max] gives v.
C15_BaselineIncludesScoredValues ==
    pc = "processAndScoreBatch" =>
        \A i \in 1..Len(cleanedNewPosts) : \A key \in Keys :
            /\ key \in DOMAIN minMaxValues
            /\ LessEq(minMaxValues[key].min, cleanedNewPosts[i][key])
            /\ LessEq(cleanedNewPosts[i][key], minMaxValues[key].max)
            /\ MathMax2(minMaxValues[key].min,
                        MathMin2(cleanedNewPosts[i][key], minMaxValues[key].max))
                   = cleanedNewPosts[i][key]

C15_Witness ==
    /\ pc = "processAndScoreBatch"
    /\ Len(cleanedNewPosts) = 1
    /\ Len(cleanedHistoricalPosts) = 2
    /\ cleanedNewPosts[1].views = Num(1)
    /\ minMaxValues.views = [min |-> Zero, max |-> Num(3)]
    /\ posts[1].views_norm = Fin(1, 3)

\* the context in which a new record supersedes the historical records of the
\* same post_id
SupersededContext(cleanedNew, cleanedHistorical) ==
    LET NotRefetched(p) == p.post_id \notin Ids(cleanedNew)
    IN  cleanedNew \o SelectSeq(cleanedHistorical, NotRefetched)

\* C16: the baseline of processAndScoreBatch is the per-metric min and max over
\* the new posts and the historical posts whose post_id is not among the new
\* ones: a historical record of a re-fetched post takes no part in it.
C16_NewRecordSupersedesHistorical ==
    pc = "processAndScoreBatch" =>
        minMaxValues =
            calculateMinMaxValues(SupersededContext(cleanedNewPosts, cleanedHistoricalPosts))

\* the cleaned values of a metric over the raw posts of both lists
ContextValues(key) ==
    {cleanMetricValue(Get(newPostsRaw[i], key)) : i \in 1..Len(newPostsRaw)}
        \cup {cleanMetricValue(Get(historicalPostsRaw[i], key)) :
                  i \in 1..Len(historicalPostsRaw)}

\* C17: the baseline has no metric when the context is empty; otherwise it has
\* the four metrics, and the min and max of each are the smallest and the
\* largest cleaned value of that metric over the new and the historical posts,
\* with min <= max.
C17_BaselineIsMinAndMax ==
    pc = "processAndScoreBatch" =>
        IF Len(newPostsRaw) + Len(historicalPostsRaw) = 0
        THEN DOMAIN minMaxValues = {}
        ELSE /\ DOMAIN minMaxValues = Keys
             /\ \A key \in Keys :
                    /\ minMaxValues[key].min \in ContextValues(key)
                    /\ minMaxValues[key].max \in ContextValues(key)
                    /\ \A v \in ContextValues(key) :
                           /\ LessEq(minMaxValues[key].min, v)
                           /\ LessEq(v, minMaxValues[key].max)
                    /\ LessEq(minMaxValues[key].min, minMaxValues[key].max)

C17_Witness ==
    /\ pc = "processAndScoreBatch"
    /\ Len(newPostsRaw) = 1
    /\ Len(historicalPostsRaw) = 2
    /\ cleanedNewPosts[1].views = Zero
    /\ cleanedHistoricalPosts[1].views = Num(3)
    /\ cleanedHistoricalPosts[2].views = Num(1)
    /\ minMaxValues.views = [min |-> Zero, max |-> Num(3)]
    /\ minMaxValues.reach = [min |-> Zero, max |-> Num(2)]

\* C18: when the context is one new post and no historical post, the baseline
\* of each metric is {min: v, max: v} for the post's cleaned value v (reach 500
\* gives {min: 500, max: 500}), the four normalized values of the post are 0
\* and its composite_score is 0, whatever the weights.
C18_SingleElementBaseline ==
    (pc = "processAndScoreBatch" /\ Len(newPostsRaw) = 1 /\ Len(historicalPostsRaw) = 0) =>
        /\ Len(rankedPosts) = 1
        /\ \A key \in Keys :
               /\ minMaxValues[key] = [min |-> cleanMetricValue(Get(newPostsRaw[1], key)),
                                       max |-> cleanMetricValue(Get(newPostsRaw[1], key))]
               /\ rankedPosts[1][NormField[key]] = Zero
        /\ Get(newPostsRaw[1], "reach") = JSNumber(Num(500))
               => minMaxValues.reach = [min |-> Num(500), max |-> Num(500)]
        /\ rankedPosts[1].composite_score = Zero

C18_Witness ==
    /\ pc = "processAndScoreBatch"
    /\ Len(newPostsRaw) = 1
    /\ Len(historicalPostsRaw) = 0
    /\ Get(newPostsRaw[1], "reach") = JSNumber(Num(500))
    /\ weights = [views |-> Num(1), reach |-> Num(1), interactions |-> Zero]
    /\ minMaxValues.reach = [min |-> Num(500), max |-> Num(500)]
    /\ rankedPosts[1].reach_norm = Zero
    /\ rankedPosts[1].composite_score = Zero

\* the entry is scored and ranked: it has a composite_score, the four
\* normalized values and a rank within the list of n entries
ScoredAndRanked(entry, n) ==
    /\ {"composite_score", "rank_within_batch"} \subseteq DOMAIN entry
    /\ \A key \in Keys : NormField[key] \in DOMAIN entry /\ IsNumber(entry[NormField[key]])
    /\ IsNumber(entry.composite_score)
    /\ entry.rank_within_batch \in 1..n

\* C19: processAndScoreBatch returns the empty list when newPostsRaw is empty,
\* whether historicalPostsRaw is empty or not, and with an empty
\* historicalPostsRaw it returns one scored and ranked entry per new post.
C19_EmptyInputs ==
    pc = "processAndScoreBatch" =>
        /\ Len(newPostsRaw) = 0 => rankedPosts = <<>>
        /\ Len(historicalPostsRaw) = 0 =>
               /\ Len(rankedPosts) = Len(newPostsRaw)
               /\ \E p \in Permutations1(Len(newPostsRaw)) :
                      \A i \in 1..Len(newPostsRaw) :
                          /\ EntryOf(rankedPosts[i], newPostsRaw[p[i]])
                          /\ ScoredAndRanked(rankedPosts[i], Len(newPostsRaw))

C19_Witness ==
    /\ pc = "processAndScoreBatch"
    /\ Len(newPostsRaw) = 0
    /\ Len(historicalPostsRaw) = 2
    /\ DOMAIN minMaxValues = Keys
    /\ minMaxValues.views = [min |-> Num(1), max |-> Num(3)]
    /\ rankedPosts = <<>>

Elements(seq) == {seq[i] : i \in 1..Len(seq)}

DistinctIds(seq) == Cardinality(Ids(seq)) = Len(seq)

\* C22: when the new posts have pairwise distinct post_ids, every returned
\* entry is made from a new post, one entry per new post, and no two returned
\* entries have the same post_id, also when historical posts have those ids.
C22_DistinctIdsInResult ==
    (pc = "processAndScoreBatch" /\ DistinctIds(newPostsRaw)) =>
        /\ Len(rankedPosts) = Len(newPostsRaw)
        /\ \A i \in 1..Len(rankedPosts) :
               \E j \in 1..Len(newPostsRaw) : EntryOf(rankedPosts[i], newPostsRaw[j])
        /\ DistinctIds(rankedPosts)

C22_Witness ==
    /\ pc = "processAndScoreBatch"
    /\ Len(newPostsRaw) = 2
    /\ Ids(newPostsRaw) = {"p1", "p2"}
    /\ Len(historicalPostsRaw) = 1
    /\ historicalPostsRaw[1].post_id = "p1"
    /\ historicalPostsRaw[1] # newPostsRaw[1]
    /\ historicalPostsRaw[1] # newPostsRaw[2]
    /\ Ids(rankedPosts) = {"p1", "p2"}
    /\ Len(rankedPosts) = 2

\* entry a has at least entry b's cleaned value in every metric
Dominates(a, b) == \A key \in Keys : GreaterEq(a[key], b[key])

\* C29: with non-negative weights, a returned entry whose cleaned values are
\* all at least those of another returned entry has a composite_score at
\* least as large and a rank_within_batch at most as large.
C29_DominanceMonotone ==
    (/\ pc = "processAndScoreBatch"
     /\ \A key \in DOMAIN weights : LessEq(Zero, weights[key])) =>
        \A i, j \in 1..Len(rankedPosts) :
            Dominates(rankedPosts[i], rankedPosts[j]) =>
                /\ GreaterEq(rankedPosts[i].composite_score, rankedPosts[j].composite_score)
                /\ rankedPosts[i].rank_within_batch <= rankedPosts[j].rank_within_batch

Did(run, step) == \E i \in 1..Len(run.steps) : run.steps[i] = step

\* the run has made request a, and request b not before it
Before(run, a, b) ==
    \E i \in 1..Len(run.steps) :
        /\ run.steps[i] = a
        /\ \A j \in 1..i : run.steps[j] # b

\* the run has requested the write of the timestamp
WroteTimestamp(run) == Did(run, "writeTimestamp") \/ Did(run, "writeTimestamp:error")

\* C23: when the upsert of the scored posts fails, the run requests no write
\* of last_meta_fetch_timestamp and has stored none, and it answers 500
\* 'Analysis run failed'.
C23_UpsertFailure ==
    \A r \in Runs :
        Did(runs[r], "upsertPosts:error") =>
            /\ runs[r].pc = "done"
            /\ runs[r].status = 500
            /\ runs[r].error = "Analysis run failed"
            /\ ~WroteTimestamp(runs[r])
            /\ runs[r].stored = Never

\* a run whose upsert failed has answered, while another run has stored its
\* timestamp
C23_Witness ==
    \E r \in Runs :
        /\ Did(runs[r], "upsertPosts:error")
        /\ runs[r].status = 500
        /\ Len(runs[r].scoredRankedPosts) = 2
        /\ db.lastFetch # Never
        /\ db.lastFetch # runs[r].currentTimestamp

\* the steps of one run up to the upsert are in the order of the handler
StepsInOrder(run) ==
    /\ Did(run, "processAndScoreBatch") =>
           /\ Before(run, "fetchAllHistoricalPosts", "processAndScoreBatch")
           /\ Before(run, "fetchNewPostsFromMetaAPI", "processAndScoreBatch")
    /\ Did(run, "upsertPosts") \/ Did(run, "upsertPosts:error") =>
           /\ Before(run, "processAndScoreBatch", "upsertPosts")
           /\ Before(run, "processAndScoreBatch", "upsertPosts:error")

\* the timestamp write of the run comes after its upsert succeeded
WriteAfterUpsert(run) ==
    /\ Before(run, "upsertPosts", "writeTimestamp")
    /\ Before(run, "upsertPosts", "writeTimestamp:error")

\* C24 as stated: in every run the historical read and the Meta fetch complete
\* before processAndScoreBatch, the upsert comes after processAndScoreBatch,
\* and the timestamp is written only after the upsert succeeded.
C24_StepOrder ==
    \A r \in Runs :
        /\ StepsInOrder(runs[r])
        /\ WroteTimestamp(runs[r]) => WriteAfterUpsert(runs[r])

\* C24: in every run the historical read and the Meta fetch complete before
\* processAndScoreBatch, the upsert comes after processAndScoreBatch, and
\* the timestamp is written only after the upsert succeeded or, with neither
\* processAndScoreBatch nor an upsert, after the fetch returned no posts.
C24_StepOrderAmended ==
    \A r \in Runs :
        /\ StepsInOrder(runs[r])
        /\ WroteTimestamp(runs[r]) =>
               \/ WriteAfterUpsert(runs[r])
               \/ /\ Len(runs[r].newPosts) = 0
                  /\ Before(runs[r], "fetchNewPostsFromMetaAPI", "writeTimestamp")
                  /\ Before(runs[r], "fetchNewPostsFromMetaAPI", "writeTimestamp:error")
                  /\ ~Did(runs[r], "processAndScoreBatch")
                  /\ ~Did(runs[r], "upsertPosts")

\* one run has gone through every step and stored its timestamp, another
\* has written the timestamp after a fetch without posts
C24_Witness ==
    \E r, q \in Runs :
        /\ runs[r].steps = <<"getUser", "isUserAllowed", "readLastFetch",
                             "fetchAllHistoricalPosts", "fetchNewPostsFromMetaAPI",
                             "processAndScoreBatch", "upsertPosts", "writeTimestamp">>
        /\ Did(runs[q], "writeTimestamp")
        /\ ~Did(runs[q], "upsertPosts")

\* C25: a run without an authenticated user with an email answers 401, and a
\* run whose whitelist lookup finds no row or fails answers 403; in both
\* cases it has made no request after the refused one: no fetch, no
\* processAndScoreBatch, no write to social_posts or app_metadata.
C25_AuthorizationGate ==
    \A r \in Runs :
        /\ runs[r].user \in {"noEmail", "noUser", "authError"} =>
               /\ runs[r].pc = "done"
               /\ runs[r].status = 401
               /\ runs[r].steps = <<"getUser">>
               /\ runs[r].stored = Never
        /\ runs[r].lookup \in {"noRow", "error"} =>
               /\ runs[r].pc = "done"
               /\ runs[r].status = 403
               /\ runs[r].steps = <<"getUser", "isUserAllowed">>
               /\ runs[r].stored = Never
        /\ runs[r].status \in {401, 403} =>
               \A row \in db.social_posts :
                   \E q \in Runs \ {r} : Did(runs[q], "upsertPosts")

\* one run was refused for a failed lookup and another for a missing user
C25_Witness ==
    \E r, q \in Runs :
        /\ runs[r].lookup = "error"
        /\ runs[r].status = 403
        /\ runs[q].user = "noEmail"
        /\ runs[q].status = 401

\* C26: a run whose Meta fetch returned no posts requests the write of its
\* start time as the timestamp (the value is stored unless the database
\* reports an error, which is only logged), does not call
\* processAndScoreBatch, requests no write to social_posts, and answers 200.
C26_NoNewPosts ==
    \A r \in Runs :
        /\ Did(runs[r], "fetchNewPostsFromMetaAPI")
        /\ Len(runs[r].newPosts) = 0
        /\ runs[r].pc = "done"
        => /\ runs[r].status = 200
           /\ WroteTimestamp(runs[r])
           /\ Did(runs[r], "writeTimestamp") =>
                  /\ runs[r].stored = runs[r].currentTimestamp
                  /\ runs[r].stored # Never
           /\ ~Did(runs[r], "processAndScoreBatch")
           /\ ~Did(runs[r], "upsertPosts")
           /\ ~Did(runs[r], "upsertPosts:error")

\* the last run fetched no posts and its start time is the stored timestamp,
\* later than the one it had read
C26_Witness ==
    \E r \in Runs :
        /\ Did(runs[r], "fetchNewPostsFromMetaAPI")
        /\ Len(runs[r].newPosts) = 0
        /\ runs[r].status = 200
        /\ runs[r].lastFetchTimestamp # Never
        /\ db.lastFetch = runs[r].currentTimestamp
        /\ db.lastFetch > runs[r].lastFetchTimestamp

\* C27: a run whose Meta fetch failed (a request threw or a page was not OK,
\* so that not every post was retrieved) does not store a timestamp.
C27_FailedFetchKeepsTimestamp ==
    \A r \in Runs :
        runs[r].fetchFailed => runs[r].stored = Never

\* C28: the stored last_meta_fetch_timestamp is never earlier than a value
\* that a run has stored.
C28_TimestampNeverEarlier ==
    \A r \in Runs :
        Did(runs[r], "writeTimestamp") => db.lastFetch >= runs[r].stored

====
